---- MODULE Spec2Model ----
(***************************************************************************)
(* Model of deepseek-quickstart/RBAC/rbac_simple.py: the in-memory user    *)
(* and role registries, the /token login route, the get_current_user       *)
(* dependency, the permission_required decorator and the routes it gates,  *)
(* together with the two CLI checks that re-implement the same lookups     *)
(* (specification Spec) and the menu loop of interactive_cli (SpecMenu);   *)
(* and of characterglm_multidialog_example.py: the event-stream parser of  *)
(* get_characterglm_response (SpecSse) and the loop of interactive_chat    *)
(* (SpecChat). Each specification moves the variables of one program and   *)
(* leaves the others at rest.                                              *)
(*                                                                         *)
(* Python values are represented as follows:                               *)
(*   - None / a value        : the sequences <<>> / <<value>>              *)
(*   - a list                : a sequence                                  *)
(*   - a dict                : a function on its keys                      *)
(*   - an f-string           : the sequence of its literal and             *)
(*                             interpolated pieces                         *)
(*   - HTTPException / a     : one record shape, [status, detail, message, *)
(*     returned body           access_token, token_type, user]             *)
(***************************************************************************)
EXTENDS Integers, Sequences, FiniteSets, TLC

VARIABLES
    fake_users_db,   \* Dict[str, User]
    fake_roles_db,   \* Dict[str, Role]
    pc,              \* where the request being served stands
    request,         \* the call being served
    current_user,    \* what Depends(get_current_user) resolved, None before
    has_permission,  \* the wrapper's (or the CLI check's) local flag
    response,        \* the HTTP response / raised HTTPException / CLI output
    ran,             \* the stages that have run for this request, in order
    sse,             \* get_characterglm_response: stream, position, locals
    chat,            \* interactive_chat: position, locals, dialogue
    menu             \* interactive_cli: position of the menu loop, locals

vars == <<fake_users_db, fake_roles_db, pc, request, current_user,
          has_permission, response, ran, sse, chat, menu>>

\* the variables of the access-control program
rbacVars == <<fake_users_db, fake_roles_db, pc, request, current_user,
              has_permission, response, ran>>

\* the other programs, not running
SseOff == [pc |-> "off", lines |-> <<>>, pos |-> 0, last_event |-> <<>>,
           yielded |-> <<>>]

ChatOff == [pc |-> "off", bot_name |-> "", user_input |-> "",
            dialogue |-> <<>>, returned |-> <<>>, inputs |-> <<>>,
            outcomes |-> <<>>]

MenuOff == [pc |-> "off", raw |-> <<>>, choice |-> <<>>, printed |-> <<>>,
            choices |-> <<>>, log |-> <<>>]

----------------------------------------------------------------------------
(* Bounds *)

\* longest role list given to the principal whose record is left open
MaxRoles == 3


\* longest event stream given to get_characterglm_response
MaxLines == 3

\* most lines typed into interactive_chat
MaxTurns == 3

\* most choices entered at the menu of interactive_cli
MaxRounds == 2
----------------------------------------------------------------------------
(* Python values *)

None == <<>>
Some(x) == <<x>>

\* x in list
InList(x, list) == \E k \in 1..Len(list) : list[k] = x

\* set(list)
Elements(list) == {list[k] : k \in 1..Len(list)}

\* all lists over S of length at most n
ListsUpTo(S, n) == UNION {[1..k -> S] : k \in 0..n}

\* list with the element at index i deleted
WithoutIndex(list, i) ==
    [k \in 1..(Len(list) - 1) |-> IF k < i THEN list[k] ELSE list[k + 1]]

----------------------------------------------------------------------------
(* Data model *)

User(username, password, roles, disabled) ==
    [username |-> username, password |-> password,
     roles |-> roles, disabled |-> disabled]

Role(name, permissions) == [name |-> name, permissions |-> permissions]

\* the registries as the module constructs them
ShippedUsers ==
    ("admin" :> User("admin", "adminpass", <<"admin">>, FALSE)) @@
    ("editor" :> User("editor", "editorpass", <<"editor">>, FALSE)) @@
    ("viewer" :> User("viewer", "viewerpass", <<"viewer">>, FALSE))

ShippedRoles ==
    ("admin" :> Role("admin", <<"create", "read", "update", "delete">>)) @@
    ("editor" :> Role("editor", <<"read", "update">>)) @@
    ("viewer" :> Role("viewer", <<"read">>))

\* role names a principal's list may hold: the registered ones and one that
\* the role registry does not know
RoleRefs == DOMAIN ShippedRoles \cup {"auditor"}

RoleLists == ListsUpTo(RoleRefs, MaxRoles)

\* a fourth principal with any role list and either value of the flag
GuestRecords ==
    {User("guest", "guestpass", rs, d) : rs \in RoleLists, d \in BOOLEAN}

UserRegistries ==
    {ShippedUsers} \cup {ShippedUsers @@ ("guest" :> g) : g \in GuestRecords}

\* inputs a caller may send
Usernames == {"admin", "editor", "viewer", "guest", "ghost"}
Passwords == {"adminpass", "editorpass", "viewerpass", "guestpass", "wrongpass"}
Permissions == {"create", "read", "update", "delete", "publish"}

----------------------------------------------------------------------------
(* Responses *)

Reply(status, detail, message, access_token, token_type, user) ==
    [status |-> status, detail |-> detail, message |-> message,
     access_token |-> access_token, token_type |-> token_type, user |-> user]

NoReply == Reply(0, <<>>, "", "", "", None)

HTTPException(status_code, detail) ==
    Reply(status_code, detail, "", "", "", None)

JSONBody(message) == Reply(200, <<>>, message, "", "", None)

----------------------------------------------------------------------------
(* get_current_user: the dependency every route but /token declares *)

Resolved(user) == [raised |-> None, user |-> Some(user)]
Raised(exc) == [raised |-> Some(exc), user |-> None]

\* variant: the disabled flag is never read
get_current_user_IgnoresDisabled(token) ==
    IF token \notin DOMAIN fake_users_db
    THEN Raised(HTTPException(401, <<"Invalid authentication credentials">>))
    ELSE Resolved(fake_users_db[token])

\* variant: a disabled principal is answered like an unknown token
get_current_user_DisabledAsUnknown(token) ==
    IF token \notin DOMAIN fake_users_db \/ fake_users_db[token].disabled
    THEN Raised(HTTPException(401, <<"Invalid authentication credentials">>))
    ELSE Resolved(fake_users_db[token])

get_current_user(token) ==
    IF token \notin DOMAIN fake_users_db
    THEN Raised(HTTPException(401, <<"Invalid authentication credentials">>))
    ELSE LET user == fake_users_db[token] IN
         IF user.disabled
         THEN Raised(HTTPException(400, <<"Inactive user">>))
         ELSE Resolved(user)

----------------------------------------------------------------------------
(* permission_required: the decorator's wrapper *)

\* for role_name in roles[i..]: if role := fake_roles_db.get(role_name):
\*     if permission in role.permissions: has_permission = True; break
RECURSIVE RoleLoopFrom(_, _, _)
RoleLoopFrom(roles, permission, i) ==
    IF i > Len(roles) THEN FALSE
    ELSE IF roles[i] \in DOMAIN fake_roles_db
         THEN IF InList(permission, fake_roles_db[roles[i]].permissions)
              THEN TRUE
              ELSE RoleLoopFrom(roles, permission, i + 1)
         ELSE RoleLoopFrom(roles, permission, i + 1)

\* variant: no break, the flag is assigned by every registered role
RECURSIVE RoleLoopLastWinsFrom(_, _, _, _)
RoleLoopLastWinsFrom(roles, permission, i, flag) ==
    IF i > Len(roles) THEN flag
    ELSE IF roles[i] \in DOMAIN fake_roles_db
         THEN RoleLoopLastWinsFrom(roles, permission, i + 1,
                  InList(permission, fake_roles_db[roles[i]].permissions))
         ELSE RoleLoopLastWinsFrom(roles, permission, i + 1, flag)

RoleLoopLastWins(roles, permission) ==
    RoleLoopLastWinsFrom(roles, permission, 1, FALSE)

\* variant: the loop ends at the first role name the registry does not hold
RECURSIVE RoleLoopStopsAtMissingFrom(_, _, _)
RoleLoopStopsAtMissingFrom(roles, permission, i) ==
    IF i > Len(roles) THEN FALSE
    ELSE IF roles[i] \in DOMAIN fake_roles_db
         THEN IF InList(permission, fake_roles_db[roles[i]].permissions)
              THEN TRUE
              ELSE RoleLoopStopsAtMissingFrom(roles, permission, i + 1)
         ELSE FALSE

RoleLoopStopsAtMissing(roles, permission) ==
    RoleLoopStopsAtMissingFrom(roles, permission, 1)

\* variant: only the first role name is looked at
RoleLoopFirstOnly(roles, permission) ==
    /\ Len(roles) > 0
    /\ roles[1] \in DOMAIN fake_roles_db
    /\ InList(permission, fake_roles_db[roles[1]].permissions)

\* variant: all() in place of any(): every registered role must grant
RoleLoopVacuous(roles, permission) ==
    \A k \in 1..Len(roles) :
        roles[k] \in DOMAIN fake_roles_db =>
            InList(permission, fake_roles_db[roles[k]].permissions)

RoleLoop(roles, permission) == RoleLoopFrom(roles, permission, 1)

\* what the wrapper does before it awaits func: the exception it raises, if
\* any, the value its flag ends with, and the stages it went through
Gate(raised, flag, stages) ==
    [raised |-> raised, has_permission |-> flag, stages |-> stages]

\* variant: the flag is computed but the 403 is never raised
permission_required_NeverForbids(permission, user) ==
    IF user = None
    THEN Gate(Some(HTTPException(401, <<"Not authenticated">>)), FALSE,
              <<"wrapper">>)
    ELSE Gate(None, RoleLoop(user[1].roles, permission), <<"wrapper", "check">>)

\* variant: a missing current_user is refused as if it lacked the permission
permission_required_NoUserForbidden(permission, user) ==
    IF user = None
    THEN Gate(Some(HTTPException(403, <<"Require ", permission, " permission">>)),
              FALSE, <<"wrapper">>)
    ELSE LET granted == RoleLoop(user[1].roles, permission) IN
         IF ~granted
         THEN Gate(Some(HTTPException(403, <<"Require ", permission, " permission">>)),
                   FALSE, <<"wrapper", "check">>)
         ELSE Gate(None, TRUE, <<"wrapper", "check">>)

permission_required(permission, user) ==
    IF user = None
    THEN Gate(Some(HTTPException(401, <<"Not authenticated">>)), FALSE,
              <<"wrapper">>)
    ELSE LET granted == RoleLoop(user[1].roles, permission) IN
         IF ~granted
         THEN Gate(Some(HTTPException(403, <<"Require ", permission, " permission">>)),
                   FALSE, <<"wrapper", "check">>)
         ELSE Gate(None, TRUE, <<"wrapper", "check">>)

----------------------------------------------------------------------------
(* Routes *)

\* variant: the password is not compared
login_PasswordUnchecked(username, password) ==
    IF username \notin DOMAIN fake_users_db
    THEN HTTPException(401, <<"Incorrect username or password">>)
    ELSE Reply(200, <<>>, "", username, "bearer", None)

\* variant: the token returned is the password, not the username
login_TokenIsPassword(username, password) ==
    IF username \notin DOMAIN fake_users_db
       \/ fake_users_db[username].password # password
    THEN HTTPException(401, <<"Incorrect username or password">>)
    ELSE Reply(200, <<>>, "", password, "bearer", None)

login(username, password) ==
    IF username \notin DOMAIN fake_users_db
       \/ fake_users_db[username].password # password
    THEN HTTPException(401, <<"Incorrect username or password">>)
    ELSE Reply(200, <<>>, "", username, "bearer", None)

admin_only_route(user) == JSONBody("This is an admin-only route")

editor_content_route(user) == JSONBody("This is an editor content route")

public_content_route(user) ==
    JSONBody("This is public content accessible to all authenticated users")

read_users_me(user) == Reply(200, <<>>, "", "", "", user)

\* the permission each decorated route was decorated with
GatedRoutes == {"/admin-only", "/editor-content", "/public-content"}

\* variant: /editor-content decorated with "read"
RoutePermissionEditorRead ==
    ("/admin-only" :> "delete") @@
    ("/editor-content" :> "read") @@
    ("/public-content" :> "read")

RoutePermission ==
    ("/admin-only" :> "delete") @@
    ("/editor-content" :> "update") @@
    ("/public-content" :> "read")

DependentRoutes == GatedRoutes \cup {"/me"}

RouteBody(path, user) ==
    CASE path = "/admin-only" -> admin_only_route(user)
      [] path = "/editor-content" -> editor_content_route(user)
      [] path = "/public-content" -> public_content_route(user)
      [] path = "/me" -> read_users_me(user)

----------------------------------------------------------------------------
(* The CLI's own checks (interactive_cli) *)

\* what a CLI check prints, and the flag it computed
Printed(message, flag) == [message |-> message, has_permission |-> flag]

\* test_user_login prints one of three outcomes:
\*   "LoginOk" for the line with "登录成功", "WrongPassword" for "密码错误",
\*   "UserNotFound" for "用户不存在"
test_user_login(username, password) ==
    IF username \in DOMAIN fake_users_db
    THEN IF fake_users_db[username].password = password
         THEN Printed("LoginOk", FALSE)
         ELSE Printed("WrongPassword", FALSE)
    ELSE Printed("UserNotFound", FALSE)

\* any(permission in fake_roles_db[role_name].permissions
\*     for role_name in roles if role_name in fake_roles_db)
AnyRole(roles, permission) ==
    \E k \in 1..Len(roles) :
        /\ roles[k] \in DOMAIN fake_roles_db
        /\ InList(permission, fake_roles_db[roles[k]].permissions)

\* custom_permission_test, choice "1": "Has" for "拥有", "Lacks" for "缺少"
custom_permission_test(username, permission) ==
    IF username \in DOMAIN fake_users_db
    THEN LET flag == AnyRole(fake_users_db[username].roles, permission) IN
         Printed(IF flag THEN "Has" ELSE "Lacks", flag)
    ELSE Printed("UserNotFound", FALSE)

\* the endpoint table of test_rbac_system and test_api_endpoint: the
\* permission each path is listed with
ApiEndpoints ==
    ("/admin-only" :> "delete") @@
    ("/editor-content" :> "update") @@
    ("/public-content" :> "read") @@
    ("/me" :> "read")

\* get_user_permissions: the set a principal's roles add up to
get_user_permissions(username) ==
    UNION {Elements(fake_roles_db[r].permissions) :
           r \in Elements(fake_users_db[username].roles) \cap DOMAIN fake_roles_db}

----------------------------------------------------------------------------
(* State machine: one call is served at a time *)

\* a call: an HTTP request (path, bearer token, or username and password for
\* /token), a direct call of a decorated route without FastAPI's dependency
\* injection, or a CLI check. from_login says the bearer token is the one the
\* preceding /token response returned; prev is the response the same call
\* got when it was made the time before.
Call(kind, path, token, username, password, permission, from_login, prev) ==
    [kind |-> kind, path |-> path, token |-> token, username |-> username,
     password |-> password, permission |-> permission,
     from_login |-> from_login, prev |-> prev]

NoCall == Call("none", "", "", "", "", "", FALSE, None)

Idle == pc = "idle"

\* a new call starts from a clean slate
Begin(call, at) ==
    /\ request' = call
    /\ pc' = at
    /\ current_user' = None
    /\ has_permission' = FALSE
    /\ response' = NoReply
    /\ ran' = <<>>
    /\ UNCHANGED <<sse, chat, menu, fake_users_db, fake_roles_db>>

Init ==
    /\ fake_users_db \in UserRegistries
    /\ fake_roles_db = ShippedRoles
    /\ pc = "idle"
    /\ request = NoCall
    /\ current_user = None
    /\ has_permission = FALSE
    /\ response = NoReply
    /\ ran = <<>>
    /\ sse = SseOff
    /\ chat = ChatOff
    /\ menu = MenuOff

\* POST /token?username=..&password=..
LoginRequest(username, password) ==
    /\ Idle
    /\ Begin(Call("http", "/token", "", username, password, "", FALSE, None),
             "login")

\* GET on a route that depends on get_current_user, with any bearer token
RouteRequest(path, token) ==
    /\ Idle
    /\ Begin(Call("http", path, token, "", "", "", FALSE, None),
             "get_current_user")

\* the same, with the access token the login just answered
RouteRequestWithLoginToken(path) ==
    /\ pc = "done"
    /\ request.path = "/token"
    /\ response.status = 200
    /\ Begin(Call("http", path, response.access_token, request.username, "",
                  "", TRUE, None),
             "get_current_user")

\* a decorated route called without a current_user keyword argument
DirectCall(path) ==
    /\ Idle
    /\ Begin(Call("direct", path, "", "", "", "", FALSE, None), "wrapper")

\* the caller repeats the call it just made
Repeat ==
    /\ pc = "done"
    /\ request.kind \in {"http", "direct"}
    /\ Begin([request EXCEPT !.prev = Some(response)],
             IF request.kind = "direct" THEN "wrapper"
             ELSE IF request.path = "/token" THEN "login"
             ELSE "get_current_user")

\* the response has been delivered and nothing of the call is kept
Finish ==
    /\ pc = "done"
    /\ Begin(NoCall, "idle")

\* the body of login
LoginStep ==
    /\ pc = "login"
    /\ response' = login(request.username, request.password)
    /\ ran' = Append(ran, "login")
    /\ pc' = "done"
    /\ UNCHANGED <<sse, chat, menu, fake_users_db, fake_roles_db, request, current_user,
                   has_permission>>

\* FastAPI resolves Depends(get_current_user); an exception ends the request
DependencyStep ==
    /\ pc = "get_current_user"
    /\ LET r == get_current_user(request.token) IN
         /\ ran' = Append(ran, "get_current_user")
         /\ IF r.raised # None
            THEN /\ response' = r.raised[1]
                 /\ pc' = "done"
                 /\ UNCHANGED current_user
            ELSE /\ current_user' = r.user
                 /\ pc' = IF request.path \in GatedRoutes THEN "wrapper"
                          ELSE "func"
                 /\ UNCHANGED response
    /\ UNCHANGED <<sse, chat, menu, fake_users_db, fake_roles_db, request, has_permission>>

\* variant: the loop pops the role names off the principal's own list
WrapperStepConsumingRoles ==
    /\ pc = "wrapper"
    /\ LET r == permission_required(RoutePermission[request.path], current_user) IN
         /\ ran' = ran \o r.stages
         /\ has_permission' = r.has_permission
         /\ IF r.raised # None
            THEN /\ response' = r.raised[1]
                 /\ pc' = "done"
            ELSE /\ pc' = "func"
                 /\ UNCHANGED response
    /\ fake_users_db' =
         IF current_user = None THEN fake_users_db
         ELSE [fake_users_db EXCEPT ![current_user[1].username].roles = <<>>]
    /\ UNCHANGED <<sse, chat, menu, fake_roles_db, request, current_user>>

\* the wrapper, up to the point where it awaits func
WrapperStep ==
    /\ pc = "wrapper"
    /\ LET r == permission_required(RoutePermission[request.path], current_user) IN
         /\ ran' = ran \o r.stages
         /\ has_permission' = r.has_permission
         /\ IF r.raised # None
            THEN /\ response' = r.raised[1]
                 /\ pc' = "done"
            ELSE /\ pc' = "func"
                 /\ UNCHANGED response
    /\ UNCHANGED <<sse, chat, menu, fake_users_db, fake_roles_db, request, current_user>>

\* the route function's body
FuncStep ==
    /\ pc = "func"
    /\ response' = RouteBody(request.path, current_user)
    /\ ran' = Append(ran, "func")
    /\ pc' = "done"
    /\ UNCHANGED <<sse, chat, menu, fake_users_db, fake_roles_db, request, current_user,
                   has_permission>>

\* a CLI check prints its outcome
CliOutcome(call, printed) ==
    /\ request' = call
    /\ pc' = "done"
    /\ current_user' = None
    /\ has_permission' = printed.has_permission
    /\ response' = Reply(0, <<>>, printed.message, "", "", None)
    /\ ran' = <<"cli">>
    /\ UNCHANGED <<sse, chat, menu, fake_users_db, fake_roles_db>>

CliLogin(username, password) ==
    /\ Idle
    /\ CliOutcome(Call("cli", "test_user_login", "", username, password, "",
                       FALSE, None),
                  test_user_login(username, password))

CliCustomPermission(username, permission) ==
    /\ Idle
    /\ CliOutcome(Call("cli", "custom_permission_test", "", username, "",
                       permission, FALSE, None),
                  custom_permission_test(username, permission))

Next ==
    \/ \E u \in Usernames, p \in Passwords : LoginRequest(u, p)
    \/ \E path \in DependentRoutes, t \in Usernames : RouteRequest(path, t)
    \/ \E path \in DependentRoutes : RouteRequestWithLoginToken(path)
    \/ \E path \in GatedRoutes : DirectCall(path)
    \/ Repeat
    \/ Finish
    \/ LoginStep
    \/ DependencyStep
    \/ WrapperStep
    \/ FuncStep
    \/ \E u \in Usernames, p \in Passwords : CliLogin(u, p)
    \/ \E u \in Usernames, c \in Permissions : CliCustomPermission(u, c)

Spec == Init /\ [][Next]_vars

----------------------------------------------------------------------------
(* Vocabulary of the properties *)

\* the union of the permission lists of the roles a role list names that
\* the role registry holds
Granted(roles) ==
    UNION {Elements(fake_roles_db[r].permissions) :
           r \in Elements(roles) \cap DOMAIN fake_roles_db}

Registered(u) == u \in DOMAIN fake_users_db

\* the wrapper's loop has run for the call being served
Checked == InList("check", ran)

\* the route function's body has run for the call being served
HandlerRan == InList("func", ran)

\* position of a stage in ran, 0 when it has not run
StageIndex(stage) ==
    IF InList(stage, ran)
    THEN CHOOSE k \in 1..Len(ran) : ran[k] = stage
    ELSE 0

GatedCall == request.kind \in {"http", "direct"} /\ request.path \in GatedRoutes

LoginDone == pc = "done" /\ request.kind = "http" /\ request.path = "/token"

RequiredPermission == RoutePermission[request.path]

Forbidden(permission) == HTTPException(403, <<"Require ", permission, " permission">>)

----------------------------------------------------------------------------
(* C1 *)

\* C1: the wrapper's loop, and the any() form of custom_permission_test,
\* grant a capability to a principal exactly when the capability is in the
\* union of the permission lists of the principal's registered roles.
C1_GrantIffInUnion ==
    /\ Checked =>
         has_permission = (RequiredPermission \in Granted(current_user[1].roles))
    /\ (pc = "done" /\ request.path = "custom_permission_test"
        /\ Registered(request.username)) =>
         has_permission =
             (request.permission \in Granted(fake_users_db[request.username].roles))

\* a principal whose first role is unregistered and whose second role does
\* not grant is granted the capability by its third role
C1_Witness ==
    /\ Checked
    /\ has_permission
    /\ Len(current_user[1].roles) = 3
    /\ current_user[1].roles[1] \notin DOMAIN fake_roles_db
    /\ current_user[1].roles[2] \in DOMAIN fake_roles_db
    /\ RequiredPermission \notin Granted(<<current_user[1].roles[2]>>)

----------------------------------------------------------------------------
(* C2 *)

\* C2: the wrapper answers Forbidden, naming the required capability,
\* exactly when the principal lacks it, and a gated route's body runs only
\* after the check has passed, never for a principal without the capability.
C2_HandlerOnlyAfterCheckPassed ==
    /\ (GatedCall /\ Checked /\ pc = "done") =>
         /\ (RequiredPermission \notin Granted(current_user[1].roles))
              <=> (response = Forbidden(RequiredPermission))
         /\ (response.status = 403) => ~HandlerRan
    /\ (GatedCall /\ response.status = 403) => Checked
    /\ (GatedCall /\ (HandlerRan \/ pc = "func")) =>
         /\ current_user # None
         /\ Checked
         /\ has_permission
         /\ RequiredPermission \in Granted(current_user[1].roles)
         /\ HandlerRan => StageIndex("check") < StageIndex("func")

\* both outcomes: here a principal with a registered role was refused
C2_Witness ==
    /\ GatedCall /\ Checked /\ pc = "done"
    /\ response = Forbidden("update")
    /\ current_user[1].roles = <<"viewer">>

----------------------------------------------------------------------------
(* C3 *)

WrongCredentialLogin ==
    /\ LoginDone
    /\ Registered(request.username)
    /\ fake_users_db[request.username].password # request.password

UnknownIdentityLogin == LoginDone /\ ~Registered(request.username)

\* C3 as stated: login with a registered identity and a wrong credential
\* fails with an error that no login with an unregistered identity gets.
C3_FailuresDistinguishable ==
    WrongCredentialLogin =>
        /\ response.status # 200
        /\ \A v \in Usernames, q \in Passwords :
               ~Registered(v) => response # login(v, q)

\* C3, amended: login with a registered identity and a wrong credential and
\* login with an unregistered identity both fail, issue no token, and raise
\* one and the same 401 "Incorrect username or password"; only the CLI's
\* test_user_login reports a wrong password and an unknown user apart.
C3_LoginFailuresAreOneError ==
    /\ (WrongCredentialLogin \/ UnknownIdentityLogin) =>
         /\ response = HTTPException(401, <<"Incorrect username or password">>)
         /\ response.access_token = ""
    /\ (pc = "done" /\ request.path = "test_user_login") =>
         /\ response.message = "WrongPassword" <=>
              (Registered(request.username)
               /\ fake_users_db[request.username].password # request.password)
         /\ response.message = "UserNotFound" <=> ~Registered(request.username)

C3_Witness ==
    /\ WrongCredentialLogin
    /\ request.username = "editor"
    /\ request.password = "wrongpass"
    /\ response.status = 401

----------------------------------------------------------------------------
(* C4 *)

DisabledLogin ==
    /\ LoginDone
    /\ Registered(request.username)
    /\ fake_users_db[request.username].disabled
    /\ fake_users_db[request.username].password = request.password

\* C4 as stated: login of a disabled principal with the correct credential
\* fails and returns no access token.
C4_DisabledLoginFails ==
    DisabledLogin => (response.status # 200 /\ response.access_token = "")

\* C4, amended: login does not read the disabled flag and returns the access
\* token to a disabled principal with the correct credential; the principal
\* is rejected when the token is used: get_current_user then raises
\* 400 "Inactive user".
C4_DisabledRejectedAtTokenUse ==
    /\ DisabledLogin =>
         response = Reply(200, <<>>, "", request.username, "bearer", None)
    /\ (pc = "done" /\ request.from_login /\ Registered(request.username)
        /\ fake_users_db[request.username].disabled) =>
         response = HTTPException(400, <<"Inactive user">>)

C4_Witness ==
    /\ pc = "done"
    /\ request.from_login
    /\ request.path = "/me"
    /\ Registered(request.username)
    /\ fake_users_db[request.username].disabled
    /\ response.status = 400

----------------------------------------------------------------------------
(* C5 *)

DisabledTokenRequest ==
    /\ request.kind = "http"
    /\ request.path \in DependentRoutes
    /\ Registered(request.token)
    /\ fake_users_db[request.token].disabled

\* C5: a request made with the token of a disabled principal ends in
\* get_current_user with the inactive-user error; neither the wrapper's
\* permission check nor the route body runs, whatever the principal's roles.
C5_InactiveRejectedBeforeCheck ==
    DisabledTokenRequest =>
        /\ pc \in {"get_current_user", "done"}
        /\ ~InList("wrapper", ran) /\ ~Checked /\ ~HandlerRan
        /\ current_user = None
        /\ has_permission = FALSE
        /\ pc = "done" => response = HTTPException(400, <<"Inactive user">>)

\* a disabled principal holding the admin role asks for a route its role
\* would grant
C5_Witness ==
    /\ DisabledTokenRequest
    /\ pc = "done"
    /\ request.path = "/admin-only"
    /\ "delete" \in Granted(fake_users_db[request.token].roles)
    /\ response.status = 400

----------------------------------------------------------------------------
(* C6 *)

\* C6: login with a registered identity, its stored credential and an active
\* principal returns the access token, and that token, given to
\* get_current_user, resolves to the principal registered under the identity
\* and to no other.
C6_TokenResolvesToItsPrincipal ==
    /\ (LoginDone /\ Registered(request.username)
        /\ fake_users_db[request.username].password = request.password
        /\ ~fake_users_db[request.username].disabled) =>
         response = Reply(200, <<>>, "", request.username, "bearer", None)
    /\ (request.from_login /\ InList("get_current_user", ran)
        /\ Registered(request.username)
        /\ ~fake_users_db[request.username].disabled) =>
         /\ current_user = Some(fake_users_db[request.username])
         /\ current_user[1].username = request.username
         /\ \A v \in DOMAIN fake_users_db \ {request.username} :
                current_user # Some(fake_users_db[v])

C6_Witness ==
    /\ request.from_login
    /\ request.username = "guest"
    /\ InList("get_current_user", ran)
    /\ current_user # None
    /\ current_user[1].username = "guest"

----------------------------------------------------------------------------
(* C7 *)

\* C7: a role name the registry does not hold raises no error in the check
\* (the call ends in the route's 200 or in Forbidden, as the flag says), and
\* the check's result is the result for the role list with that name removed.
C7_MissingRoleIgnored ==
    (Checked /\ \E i \in 1..Len(current_user[1].roles) :
                    current_user[1].roles[i] \notin DOMAIN fake_roles_db) =>
        /\ pc \in {"func", "done"}
        /\ pc = "done" => response.status = (IF has_permission THEN 200 ELSE 403)
        /\ \A i \in 1..Len(current_user[1].roles) :
               current_user[1].roles[i] \notin DOMAIN fake_roles_db =>
                   RoleLoop(WithoutIndex(current_user[1].roles, i),
                            RequiredPermission) = has_permission

\* the unregistered name comes first and a later role grants
C7_Witness ==
    /\ Checked
    /\ pc = "done"
    /\ current_user[1].roles = <<"auditor", "editor">>
    /\ request.path = "/editor-content"
    /\ response.status = 200

----------------------------------------------------------------------------
(* C8 *)

\* C8: the result of the check is the same for every role list with the same
\* set of role names, whatever their order and however often each is
\* repeated.
C8_OrderAndDuplicatesIrrelevant ==
    Checked =>
        \A rs \in RoleLists :
            Elements(rs) = Elements(current_user[1].roles) =>
                RoleLoop(rs, RequiredPermission) = has_permission

\* the granting role is not the first of two distinct roles
C8_Witness ==
    /\ Checked
    /\ has_permission
    /\ current_user[1].roles = <<"viewer", "editor", "viewer">>
    /\ request.path = "/editor-content"

----------------------------------------------------------------------------
(* C9 *)

\* C9: no step changes fake_users_db or fake_roles_db, and a call that is
\* repeated gets the response it got before.
C9_RegistriesNeverChange ==
    [][/\ fake_users_db' = fake_users_db
       /\ fake_roles_db' = fake_roles_db
       /\ (pc' = "done" /\ request'.prev # None) =>
              response' = request'.prev[1]]_vars

\* a gated call that was refused has been repeated and refused again
C9_Witness ==
    /\ pc = "done"
    /\ request.prev # None
    /\ Checked
    /\ response.status = 403
    /\ fake_users_db # ShippedUsers

----------------------------------------------------------------------------
(* C10 *)

Unauthenticated ==
    \/ request.kind = "direct"
    \/ request.kind = "http" /\ ~Registered(request.token)

\* C10: a gated call without an authenticated principal (unknown token, or
\* no current_user) ends in a 401 and never in Forbidden; Forbidden is
\* raised only for a principal get_current_user resolved and that lacks the
\* required capability.
C10_ForbiddenOnlyForAuthenticated ==
    (GatedCall /\ pc = "done") =>
        /\ Unauthenticated =>
             /\ response.status = 401
             /\ response \in {HTTPException(401, <<"Invalid authentication credentials">>),
                              HTTPException(401, <<"Not authenticated">>)}
        /\ response.status = 403 =>
             /\ request.kind = "http"
             /\ Registered(request.token)
             /\ ~fake_users_db[request.token].disabled
             /\ current_user = Some(fake_users_db[request.token])
             /\ RequiredPermission \notin Granted(current_user[1].roles)

\* a decorated route called without current_user
C10_Witness ==
    /\ GatedCall /\ pc = "done"
    /\ request.kind = "direct"
    /\ response = HTTPException(401, <<"Not authenticated">>)

----------------------------------------------------------------------------
(* C11 *)

\* C11: /me requires the "read" permission, as the endpoint table lists it:
\* a request to /me by a resolved principal whose roles do not grant "read"
\* is denied and the route body does not run.
C11_MeRequiresRead ==
    (request.kind = "http" /\ request.path = "/me" /\ current_user # None
     /\ ApiEndpoints[request.path] \notin Granted(current_user[1].roles)) =>
        /\ ~HandlerRan
        /\ pc = "done" => response = Forbidden(ApiEndpoints[request.path])

----------------------------------------------------------------------------
(* C12 *)

\* the principals each gated route is said to admit
Admits ==
    ("/admin-only" :> {"admin"}) @@
    ("/editor-content" :> {"admin", "editor"}) @@
    ("/public-content" :> {"admin", "editor", "viewer"})

\* C12: with the registries as shipped, /admin-only admits admin only,
\* /editor-content admits admin and editor and refuses viewer with
\* Forbidden, /public-content admits admin, editor and viewer.
C12_ShippedAccessMatrix ==
    (fake_users_db = ShippedUsers /\ fake_roles_db = ShippedRoles
     /\ request.kind = "http" /\ request.path \in GatedRoutes /\ pc = "done") =>
        /\ (response.status = 200) <=> (request.token \in Admits[request.path])
        /\ (request.token \in DOMAIN ShippedUsers
            /\ request.token \notin Admits[request.path]) =>
               response = Forbidden(ApiEndpoints[request.path])
        /\ response.status = 200 =>
               response = RouteBody(request.path, current_user)

\* viewer is refused on /editor-content
C12_Witness ==
    /\ fake_users_db = ShippedUsers
    /\ request.kind = "http" /\ pc = "done"
    /\ request.path = "/editor-content"
    /\ request.token = "viewer"
    /\ response = Forbidden("update")

----------------------------------------------------------------------------
(* C13 *)

\* C13: a principal with an empty role list is granted no capability, and
\* every gated route refuses it with Forbidden.
C13_EmptyRoleListDenied ==
    /\ \A c \in Permissions : ~RoleLoop(<<>>, c) /\ ~AnyRole(<<>>, c)
    /\ (Checked /\ current_user[1].roles = <<>>) =>
         /\ ~has_permission
         /\ ~HandlerRan
         /\ pc = "done"
         /\ response = Forbidden(RequiredPermission)
    /\ (pc = "done" /\ request.path = "custom_permission_test"
        /\ Registered(request.username)
        /\ fake_users_db[request.username].roles = <<>>) =>
         /\ ~has_permission
         /\ response.message = "Lacks"

\* the principal without roles asks for the route every role may read
C13_Witness ==
    /\ Checked
    /\ current_user[1].roles = <<>>
    /\ request.path = "/public-content"
    /\ response.status = 403

----------------------------------------------------------------------------
(* characterglm_multidialog_example.py: get_characterglm_response *)

\* A bytes line of resp.iter_lines() is a sequence of tokens: the byte ":"
\* and runs of ASCII bytes without a ":" ("event", "data", "add", ...).

Sep == ":"

\* line.startswith(sep)
StartsWith(line, sep) == Len(line) > 0 /\ line[1] = sep

\* index of the first sep at or after i, 0 when there is none
RECURSIVE FindFrom(_, _, _)
FindFrom(line, sep, i) ==
    IF i > Len(line) THEN 0
    ELSE IF line[i] = sep THEN i
    ELSE FindFrom(line, sep, i + 1)

\* line.split(sep, maxsplit=1): one part when sep does not occur, else the
\* part before the first sep and all that follows it
SplitOnce(line, sep) ==
    LET k == FindFrom(line, sep, 1) IN
    IF k = 0 THEN <<line>>
    ELSE <<SubSeq(line, 1, k - 1), SubSeq(line, k + 1, Len(line))>>

\* value.decode(): the str with the characters of the ASCII bytes
Decode(value) == [k \in 1..Len(value) |-> value[k]]

\* the outcome of one pass of the for body
Pass(raised, last_event, yielded) ==
    [raised |-> raised, last_event |-> last_event, yielded |-> yielded]

\* one pass of "for line in resp.iter_lines()": last_event is None or the
\* remembered value; unpacking a split of one part into field, value raises
\* ValueError
ParseLine(last_event, line) ==
    IF line = <<>> \/ StartsWith(line, Sep)
    THEN Pass(FALSE, last_event, <<>>)
    ELSE LET parts == SplitOnce(line, Sep) IN
         IF Len(parts) # 2
         THEN Pass(TRUE, last_event, <<>>)
         ELSE IF parts[1] = <<"event">>
              THEN Pass(FALSE, Some(parts[2]), <<>>)
              ELSE IF parts[1] = <<"data">> /\ last_event = Some(<<"add">>)
                   THEN Pass(FALSE, last_event, <<Decode(parts[2])>>)
                   ELSE Pass(FALSE, last_event, <<>>)

\* lines a server may send: empty, comment, field:value for a few fields and
\* values (one value holding a ":" itself), and field names without a ":"
SseFields == {<<>>, <<"event">>, <<"data">>, <<"id">>}
SseValues == {<<>>, <<"add">>, <<"finish">>, <<"add", ":", "x">>}
SseLines ==
    {<<>>, <<"data">>, <<"retry">>}
        \cup {f \o <<Sep>> \o v : f \in SseFields, v \in SseValues}

SseStreams == ListsUpTo(SseLines, MaxLines)

\* the generator is resumed for the next line
SseNext ==
    /\ sse.pc = "iter"
    /\ sse.pos < Len(sse.lines)
    /\ LET r == ParseLine(sse.last_event, sse.lines[sse.pos + 1]) IN
         sse' = [sse EXCEPT !.pos = sse.pos + 1,
                            !.last_event = r.last_event,
                            !.yielded = sse.yielded \o r.yielded,
                            !.pc = IF r.raised THEN "raised" ELSE "iter"]
    /\ UNCHANGED <<rbacVars, chat, menu>>

\* iter_lines is exhausted and the generator returns
SseExhausted ==
    /\ sse.pc = "iter"
    /\ sse.pos = Len(sse.lines)
    /\ sse' = [sse EXCEPT !.pc = "done"]
    /\ UNCHANGED <<rbacVars, chat, menu>>

\* the access-control program at rest
RbacAtRest ==
    /\ fake_users_db = ShippedUsers
    /\ fake_roles_db = ShippedRoles
    /\ pc = "idle"
    /\ request = NoCall
    /\ current_user = None
    /\ has_permission = FALSE
    /\ response = NoReply
    /\ ran = <<>>

\* the response has arrived (raise_for_status passed) with any stream
InitSse ==
    /\ RbacAtRest
    /\ chat = ChatOff
    /\ menu = MenuOff
    /\ sse \in {[pc |-> "iter", lines |-> ls, pos |-> 0, last_event |-> None,
                 yielded |-> <<>>] : ls \in SseStreams}

NextSse == SseNext \/ SseExhausted

SpecSse == InitSse /\ [][NextSse]_vars

----------------------------------------------------------------------------
(* C14 *)

\* an 'event' / 'data' line: the bytes before the first ":" are the name
IsEventLine(line) == Len(line) >= 2 /\ line[1] = "event" /\ line[2] = Sep
IsDataLine(line) == Len(line) >= 2 /\ line[1] = "data" /\ line[2] = Sep
LineValue(line) == SubSeq(line, 3, Len(line))

\* the data line at i follows an event line of value 'add' with no other
\* event line in between
AfterAdd(lines, i) ==
    \E j \in 1..(i - 1) :
        /\ IsEventLine(lines[j])
        /\ LineValue(lines[j]) = <<"add">>
        /\ \A k \in (j + 1)..(i - 1) : ~IsEventLine(lines[k])

\* the values of the qualifying data lines among the first n, in order
RECURSIVE AddData(_, _)
AddData(lines, n) ==
    IF n = 0 THEN <<>>
    ELSE AddData(lines, n - 1) \o
         (IF IsDataLine(lines[n]) /\ AfterAdd(lines, n)
          THEN <<LineValue(lines[n])>> ELSE <<>>)

\* C14: what get_characterglm_response has yielded when it ends is, in
\* stream order, exactly the values of the data lines of the stream whose
\* most recent preceding event line has value 'add'.
C14_YieldsDataAfterAdd ==
    sse.pc \in {"done", "raised"} =>
        sse.yielded = AddData(sse.lines, Len(sse.lines))

\* the part of C14 the parser does satisfy: up to the line it has reached
C14_HoldsForLinesRead ==
    sse.pc # "off" => sse.yielded = AddData(sse.lines, sse.pos)

----------------------------------------------------------------------------
(* characterglm_multidialog_example.py: interactive_chat *)

\* Texts are named by ASCII tags: "<exit>" is the exit word '退出', "user: "
\* the prefix '用户: ', "<apology>" the reply '抱歉，我暂时无法回答。'
ExitWord == "<exit>"
UserPrefix == "user: "
Apology == "<apology>"

\* what may be typed at the prompt: the exit word, the exit word followed by
\* a blank, texts that differ in case only, and nothing
ChatInputs == {ExitWord, "<exit> ", "Hello", "hello", ""}

\* str.lower() on those texts (the exit word has no cased characters)
Lower(text) == IF text = "Hello" THEN "hello" ELSE text

\* get_complete_response either raises an Exception or returns a text
Answer(raised, text) == [raised |-> raised, text |-> text]
ChatOutcomes == {Answer(TRUE, ""), Answer(FALSE, "ok"), Answer(FALSE, "")}

ChatBotNames == {"Bot", "Mei"}

\* '\n'.join(dialogue)
RECURSIVE JoinLines(_)
JoinLines(entries) ==
    IF entries = <<>> THEN <<>>
    ELSE IF Len(entries) = 1 THEN entries[1]
    ELSE entries[1] \o <<"\n">> \o JoinLines(Tail(entries))

\* variant: the except branch goes on to the next input without recording
ChatTurnSkipsOnError(dialogue, bot_name, user_input, outcome) ==
    IF outcome.raised THEN dialogue
    ELSE dialogue \o <<<<UserPrefix, user_input>>,
                       <<bot_name, ": ", outcome.text>>>>

\* the loop body after the exit test: the try/except and the two appends
ChatTurn(dialogue, bot_name, user_input, outcome) ==
    LET assistant_response ==
            IF outcome.raised THEN Apology ELSE outcome.text
    IN  dialogue \o <<<<UserPrefix, user_input>>,
                      <<bot_name, ": ", assistant_response>>>>

\* user_input = input("你: "), and the exit test
ChatInput(text) ==
    /\ chat.pc = "input"
    /\ Len(chat.inputs) < MaxTurns
    /\ IF Lower(text) = ExitWord
       THEN chat' = [chat EXCEPT !.pc = "returned",
                                 !.user_input = text,
                                 !.inputs = Append(chat.inputs, text),
                                 !.returned = Some(JoinLines(chat.dialogue))]
       ELSE chat' = [chat EXCEPT !.pc = "respond",
                                 !.user_input = text,
                                 !.inputs = Append(chat.inputs, text)]
    /\ UNCHANGED <<rbacVars, sse, menu>>

\* the response call and the recording of the turn
ChatRespond(outcome) ==
    /\ chat.pc = "respond"
    /\ chat' = [chat EXCEPT
                  !.pc = "input",
                  !.dialogue = ChatTurn(chat.dialogue, chat.bot_name,
                                        chat.user_input, outcome),
                  !.outcomes = Append(chat.outcomes, outcome)]
    /\ UNCHANGED <<rbacVars, sse, menu>>

\* the names have been set and the loop is about to read its first input
InitChat ==
    /\ RbacAtRest
    /\ sse = SseOff
    /\ menu = MenuOff
    /\ chat \in {[pc |-> "input", bot_name |-> b, user_input |-> "",
                  dialogue |-> <<>>, returned |-> None, inputs |-> <<>>,
                  outcomes |-> <<>>] : b \in ChatBotNames}

NextChat ==
    \/ \E text \in ChatInputs : ChatInput(text)
    \/ \E outcome \in ChatOutcomes : ChatRespond(outcome)

SpecChat == InitChat /\ [][NextChat]_vars

----------------------------------------------------------------------------
(* C15 *)

IsExit(text) == Lower(text) = ExitWord

\* C15: the dialogue holds, in input order, two entries for every input
\* that was not the exit word: the user's line and the bot's line, the bot's
\* line being the fixed apology when the response call raised; a raise does
\* not end the loop; the loop has ended exactly when the last input was the
\* exit word, which is not recorded.
C15_TwoEntriesPerTurn ==
    chat.pc # "off" =>
        /\ Len(chat.dialogue) = 2 * Len(chat.outcomes)
        /\ \A k \in 1..Len(chat.outcomes) :
               /\ ~IsExit(chat.inputs[k])
               /\ chat.dialogue[2 * k - 1] = <<UserPrefix, chat.inputs[k]>>
               /\ chat.dialogue[2 * k] =
                      <<chat.bot_name, ": ",
                        IF chat.outcomes[k].raised THEN Apology
                        ELSE chat.outcomes[k].text>>
        /\ (chat.pc = "returned") <=>
               (chat.inputs # <<>> /\ IsExit(chat.inputs[Len(chat.inputs)]))
        /\ chat.pc = "input" => Len(chat.outcomes) = Len(chat.inputs)
        /\ chat.pc \in {"respond", "returned"} =>
               Len(chat.outcomes) = Len(chat.inputs) - 1
        /\ chat.pc = "returned" =>
               chat.returned = Some(JoinLines(chat.dialogue))

\* the response call raised for the first input, the loop went on to a
\* second turn and ended on the exit word
C15_Witness ==
    /\ chat.pc = "returned"
    /\ Len(chat.inputs) = 3
    /\ chat.outcomes[1].raised
    /\ ~chat.outcomes[2].raised
    /\ Len(chat.dialogue) = 4
    /\ chat.dialogue[2] = <<chat.bot_name, ": ", Apology>>

----------------------------------------------------------------------------
(* rbac_simple.py: the menu loop of interactive_cli *)

\* A typed line is a sequence of characters; " " is the blank.

\* str.strip(): leading and trailing blanks removed
RECURSIVE StripLeft(_)
StripLeft(text) ==
    IF text # <<>> /\ text[1] = " " THEN StripLeft(Tail(text)) ELSE text

RECURSIVE StripRight(_)
StripRight(text) ==
    IF text # <<>> /\ text[Len(text)] = " "
    THEN StripRight(SubSeq(text, 1, Len(text) - 1))
    ELSE text

Strip(text) == StripRight(StripLeft(text))

\* variant: the default is not applied to an empty answer
get_user_input_NoDefault(raw, default) == Strip(raw)

\* get_user_input(prompt, default), raw being what input() returned
get_user_input(raw, default) ==
    IF default # <<>>
    THEN LET user_input == Strip(raw) IN
         IF user_input # <<>> THEN user_input ELSE default
    ELSE Strip(raw)

MenuKeys == {"0", "1", "2", "3", "4", "5", "6", "7", "8", "9", "x"}

\* what may be typed at the menu prompt
MenuInputs ==
    {<<k>> : k \in MenuKeys}
        \cup {<<>>, <<" ">>, <<" ", "0">>, <<"0", " ">>, <<" ", "6", " ">>,
              <<"0", "0">>, <<"1", " ", "0">>}

\* the if / elif chain after the exit test: the function a choice runs,
\* "invalid" for the else branch, which runs none
Dispatch(choice) ==
    CASE choice = <<"1">> -> "test_user_login"
      [] choice = <<"2">> -> "view_user_info"
      [] choice = <<"3">> -> "test_permission"
      [] choice = <<"4">> -> "test_api_endpoint"
      [] choice = <<"5">> -> "show_role_matrix"
      [] choice = <<"6">> -> "custom_permission_test"
      [] choice = <<"7">> -> "show_system_stats"
      [] choice = <<"8">> -> "test_rbac_system"
      [] OTHER -> "invalid"

\* What a branch prints is the sequence of its outcome lines, in the order
\* printed, each line named by the text it carries:
\*   "LoginOk"         登录成功            "AuthOk"        认证成功
\*   "WrongPassword"   密码错误            "UserNotFound"  用户不存在
\*   "UserInfo"        用户信息:           "RoleNotFound"  角色不存在
\*   "RoleHas"         拥有所需权限        "RoleLacks"     缺少所需权限
\*   "Passed"          权限验证通过        "Failed"        权限验证失败
\*   "CanAccess"       可以访问此端点      "CannotAccess"  无法访问此端点
\*   "InvalidEndpoint" 无效选择 (line 582) "InvalidNumber" 请输入有效数字
\*   "InvalidChoice"   无效选择，请重新输入 (line 733)
\*   "Has"             结果: ✅ 拥有       "Lacks"         结果: ❌ 缺少
\*   "Compared"        权限比较结果:       "Contained"     角色权限包含关系:
\*   "RoleMatrix"      角色名称 .. 权限列表 (the matrix header)
\*   "SystemStats"     系统统计信息        "Goodbye"       再见
\* Headings, prompts, echoes of the answers and the listings under an
\* outcome line are not recorded.

\* An answer typed at a name prompt is a sequence of pieces, each a blank
\* or a word. The string get_user_input returns for it: the word when one
\* word is left after strip(), the empty string when nothing is left, and
\* otherwise a string with a blank inside, which no registry holds.
Entered(raw) ==
    LET text == get_user_input(raw, <<>>) IN
    IF text = <<>> THEN ""
    ELSE IF Len(text) = 1 THEN text[1] ELSE "<spaced>"

MenuWords == {"admin", "viewer", "ghost", "adminpass", "wrongpass", "read",
              "delete"}

\* what may be typed at a name prompt
MenuAnswers ==
    {<<w>> : w \in MenuWords}
        \cup {<<>>, <<" ", "editor", " ">>, <<"admin", " ", "viewer">>}

\* what may be typed at the prompts for a test type or an endpoint number
MenuNumbers ==
    {<<>>, <<"0">>, <<"1">>, <<"2">>, <<"3">>, <<"4">>, <<"5">>, <<"x">>,
     <<" ", "2">>, <<"0", "3">>, <<"1", " ", "2">>}

DigitValue ==
    ("0" :> 0) @@ ("1" :> 1) @@ ("2" :> 2) @@ ("3" :> 3) @@ ("4" :> 4) @@
    ("5" :> 5) @@ ("6" :> 6) @@ ("7" :> 7) @@ ("8" :> 8) @@ ("9" :> 9)

RECURSIVE DigitsValue(_, _)
DigitsValue(text, acc) ==
    IF text = <<>> THEN acc
    ELSE DigitsValue(Tail(text), 10 * acc + DigitValue[text[1]])

\* int(text) for a stripped text of digits, blanks and letters (no sign and
\* no underscore is typed): <<n>>, or <<>> where int raises ValueError
ParseInt(text) ==
    IF text # <<>> /\ \A k \in 1..Len(text) : text[k] \in DOMAIN DigitValue
    THEN <<DigitsValue(text, 0)>>
    ELSE <<>>

\* test_user_login, with the answers to its two prompts
test_user_login_lines(first, second) ==
    <<test_user_login(Entered(first), Entered(second)).message>>

view_user_info(first) ==
    IF Entered(first) \in DOMAIN fake_users_db
    THEN <<"UserInfo">>
    ELSE <<"UserNotFound">>

\* the lines the role loop of test_permission and simulate_permission_check
\* prints: one for each registered role, up to the first that grants
RECURSIVE RoleLinesFrom(_, _, _)
RoleLinesFrom(roles, permission, k) ==
    IF k > Len(roles) THEN <<>>
    ELSE IF roles[k] \in DOMAIN fake_roles_db
         THEN IF InList(permission, fake_roles_db[roles[k]].permissions)
              THEN <<"RoleHas">>
              ELSE <<"RoleLacks">> \o RoleLinesFrom(roles, permission, k + 1)
         ELSE RoleLinesFrom(roles, permission, k + 1)

\* the body test_permission and simulate_permission_check share
permission_check_lines(username, permission) ==
    IF username \notin DOMAIN fake_users_db
    THEN <<"UserNotFound">>
    ELSE LET roles == fake_users_db[username].roles IN
         RoleLinesFrom(roles, permission, 1)
             \o <<IF RoleLoop(roles, permission) THEN "Passed" ELSE "Failed">>

test_permission(first, second) ==
    permission_check_lines(Entered(first), Entered(second))

\* the endpoints list of test_api_endpoint, in its order
EndpointList == <<"/admin-only", "/editor-content", "/public-content", "/me">>

\* test_api_endpoint: typed answers the endpoint prompt (default "1"); the
\* username is asked only for a number from 1 to 4
test_api_endpoint(typed, first) ==
    LET choice == ParseInt(get_user_input(typed, <<"1">>)) IN
    IF choice = <<>> THEN <<"InvalidNumber">>
    ELSE IF 1 <= choice[1] /\ choice[1] <= 4
         THEN LET permission == ApiEndpoints[EndpointList[choice[1]]]
                  username == Entered(first)
              IN  IF username \in DOMAIN fake_users_db
                  THEN IF RoleLoop(fake_users_db[username].roles, permission)
                       THEN <<"CanAccess">>
                       ELSE <<"CannotAccess">>
                  ELSE <<"UserNotFound">>
         ELSE <<"InvalidEndpoint">>

show_role_matrix == <<"RoleMatrix">>

\* custom_permission_test: typed answers the test type prompt (default
\* "1"); type 1 asks a username and a permission, type 2 two usernames,
\* type 3 two role names, any other type asks and prints nothing
custom_permission_test_lines(typed, first, second) ==
    LET choice == get_user_input(typed, <<"1">>) IN
    IF choice = <<"1">>
    THEN <<custom_permission_test(Entered(first), Entered(second)).message>>
    ELSE IF choice = <<"2">>
         THEN IF Entered(first) \in DOMAIN fake_users_db
                 /\ Entered(second) \in DOMAIN fake_users_db
              THEN <<"Compared">>
              ELSE <<"UserNotFound">>
         ELSE IF choice = <<"3">>
              THEN IF Entered(first) \in DOMAIN fake_roles_db
                      /\ Entered(second) \in DOMAIN fake_roles_db
                   THEN <<"Contained">>
                   ELSE <<"RoleNotFound">>
              ELSE <<>>

show_system_stats == <<"SystemStats">>

\* test_rbac_system: its five login cases, the matrix, and its six
\* simulated permission checks
TestCases ==
    <<<<"admin", "adminpass">>, <<"editor", "editorpass">>,
      <<"viewer", "viewerpass">>, <<"admin", "wrongpass">>,
      <<"nonexistent", "anypass">>>>

TestPermissions ==
    <<<<"admin", "delete">>, <<"editor", "update">>, <<"viewer", "read">>,
      <<"admin", "read">>, <<"editor", "delete">>, <<"viewer", "update">>>>

AuthLine(case) ==
    IF case[1] \in DOMAIN fake_users_db
    THEN IF fake_users_db[case[1]].password = case[2]
         THEN "AuthOk"
         ELSE "WrongPassword"
    ELSE "UserNotFound"

RECURSIVE SimulatedChecksFrom(_)
SimulatedChecksFrom(k) ==
    IF k > Len(TestPermissions) THEN <<>>
    ELSE permission_check_lines(TestPermissions[k][1], TestPermissions[k][2])
             \o SimulatedChecksFrom(k + 1)

test_rbac_system ==
    [k \in 1..Len(TestCases) |-> AuthLine(TestCases[k])]
        \o <<"RoleMatrix">> \o SimulatedChecksFrom(1)

\* print_menu and choice = get_user_input(.., "1"); "0" breaks out
MenuChoose(raw) ==
    /\ menu.pc = "menu"
    /\ Len(menu.choices) < MaxRounds
    /\ LET choice == get_user_input(raw, <<"1">>) IN
         menu' = [menu EXCEPT
                    !.raw = raw,
                    !.choice = choice,
                    !.choices = Append(menu.choices, choice),
                    !.printed = IF choice = <<"0">> THEN <<"Goodbye">> ELSE <<>>,
                    !.pc = IF choice = <<"0">> THEN "exited" ELSE "action"]
    /\ UNCHANGED <<rbacVars, sse, chat>>

\* the branch the choice selects, run to its end: typed is the answer to
\* the branch's own numbered prompt, first and second the answers to its
\* name prompts; a branch reads only the prompts it asks
MenuAction(typed, first, second) ==
    /\ menu.pc = "action"
    /\ LET action == Dispatch(menu.choice) IN
         menu' = [menu EXCEPT
                    !.log = Append(menu.log, action),
                    !.printed =
                        CASE action = "test_user_login" ->
                                 test_user_login_lines(first, second)
                          [] action = "view_user_info" -> view_user_info(first)
                          [] action = "test_permission" ->
                                 test_permission(first, second)
                          [] action = "test_api_endpoint" ->
                                 test_api_endpoint(typed, first)
                          [] action = "show_role_matrix" -> show_role_matrix
                          [] action = "custom_permission_test" ->
                                 custom_permission_test_lines(typed, first, second)
                          [] action = "show_system_stats" -> show_system_stats
                          [] action = "test_rbac_system" -> test_rbac_system
                          [] action = "invalid" -> <<"InvalidChoice">>,
                    !.pc = "continue"]
    /\ UNCHANGED <<rbacVars, sse, chat>>

\* if choice != "0": input(..), whatever is typed; then the loop starts over
MenuContinue ==
    /\ menu.pc = "continue"
    /\ menu.choice # <<"0">>
    /\ menu' = [menu EXCEPT !.pc = "menu"]
    /\ UNCHANGED <<rbacVars, sse, chat>>

InitMenu ==
    /\ RbacAtRest
    /\ sse = SseOff
    /\ chat = ChatOff
    /\ menu = [pc |-> "menu", raw |-> <<>>, choice |-> <<>>, printed |-> <<>>,
               choices |-> <<>>, log |-> <<>>]

NextMenu ==
    \/ \E raw \in MenuInputs : MenuChoose(raw)
    \/ \E typed \in MenuNumbers, first \in MenuAnswers, second \in MenuAnswers :
           MenuAction(typed, first, second)
    \/ MenuContinue

SpecMenu == InitMenu /\ [][NextMenu]_vars

----------------------------------------------------------------------------
(* C16 *)

MenuRunning == menu.pc # "off"

\* in every state: the loop has ended exactly when the choice is "0"; every
\* other choice has run one branch of the chain, the one Dispatch names, and
\* none before the choice is made; an empty answer is choice "1"
MenuInvariant ==
    MenuRunning =>
        /\ (menu.pc = "exited") <=> (menu.choice = <<"0">>)
        /\ menu.pc = "exited" => Strip(menu.raw) = <<"0">>
        /\ menu.pc \in {"menu", "continue"} => Len(menu.log) = Len(menu.choices)
        /\ menu.pc \in {"action", "exited"} =>
               Len(menu.log) = Len(menu.choices) - 1
        /\ \A k \in 1..Len(menu.log) :
               /\ menu.choices[k] # <<"0">>
               /\ menu.log[k] = Dispatch(menu.choices[k])
        /\ (menu.pc \in {"action", "continue"} /\ Strip(menu.raw) = <<>>) =>
               /\ menu.choice = <<"1">>
               /\ menu.pc = "continue" =>
                      menu.log[Len(menu.log)] = "test_user_login"

\* in every step: a branch is followed by the continue prompt, the prompt
\* by the menu, and nothing follows the exit
MenuStep ==
    /\ menu.pc = "action" => menu'.pc = "continue"
    /\ menu.pc = "continue" => menu'.pc = "menu"
    /\ menu.pc = "exited" => menu'.pc = "exited"
    /\ menu.pc = "menu" => menu'.pc \in {"action", "exited"}

\* C16: the menu loop ends exactly when the entered choice is "0"; every
\* other input, an unrecognised one included, runs at most one test action,
\* waits for the continue prompt and returns to the menu; an empty input is
\* choice "1" (the login test), never the exit.
C16_MenuLoopEndsOnZero == [](MenuInvariant) /\ [][MenuStep]_vars

\* an empty answer ran the login test, then an unrecognised choice ran
\* nothing, and the loop is at the continue prompt
C16_Witness ==
    /\ menu.pc = "continue"
    /\ menu.choices = <<<<"1">>, <<"9">>>>
    /\ menu.log = <<"test_user_login", "invalid">>
    /\ menu.printed = <<"InvalidChoice">>

====
